---- MODULE Spec2Model ----
(***************************************************************************)
(* A model of the merkletree package: the tree engine (construction,       *)
(* rebuild, extend, full and path verification, proof extraction) and the  *)
(* bucket pool (a bounded channel of buckets with Get / Put).              *)
(***************************************************************************)
EXTENDS Integers, Sequences, FiniteSets, TLC

VARIABLES
    nodes,       \* the node store of the tree: node id -> Node (ids are 1..Len)
    Root,        \* MerkleTree.Root: a node id, 0 is nil
    Leafs,       \* MerkleTree.Leafs: sequence of node ids
    MerkleRoot,  \* MerkleTree.MerkleRoot: a byte string
    built,       \* nodes and MerkleRoot as the last successful build left them
    logical,     \* the contents the callers handed in so far, in order
    tampers,     \* how many fields were overwritten from outside so far
    ret,         \* the last call on the tree and what it returned
    bp,          \* the BucketPool: c (the channel's queue), cap (its capacity),
                 \* width, Topic
    bufs,        \* the bytes.Buffer each Bucket.Content points to: id -> bytes
    held,        \* the Bucket value each thread holds in its variable
    pc,          \* where each thread stands inside Get
    lb,          \* the variable b of a thread inside Get
    sendq,       \* the threads parked in a send on the full channel, oldest first
    res,         \* the last call on the pool that returned, and its result
    wrote,       \* the records WriteContent accepted into the bucket of thread 1
    rd,          \* what the last ReadContent returned
    mt           \* the locals of each thread's MakeTree: numBuckets - i, leafs
                 \* (and from: the bytes the pool's buckets held at the call)

treeVars == <<nodes, Root, Leafs, MerkleRoot, built, logical, tampers>>
treeAll == <<nodes, Root, Leafs, MerkleRoot, built, logical, tampers, ret>>
poolVars == <<bp, bufs, held, pc, lb, sendq, res, wrote, rd, mt>>
vars == <<nodes, Root, Leafs, MerkleRoot, built, logical, tampers, ret,
          bp, bufs, held, pc, lb, sendq, res, wrote, rd, mt>>

-----------------------------------------------------------------------------
(* Bounds of the model.                                                    *)

\* longest content list handed to NewTree, and the cap on the content list
\* ExtendTree may produce
MaxLeaves == 5
\* longest content list handed to ExtendTree and to RebuildTreeWith
MaxExt == 2
\* longest content list that holds a content whose hash fails, or twins
MaxErrLen == 2
\* number of overwrites of a node field from outside the package
MaxTamper == 1
\* largest maxNum handed to NewBucketPool
MaxNum == 1
\* the size handed to NewBucketPool, in bytes
PoolWidth == 10
\* largest maxNum handed to NewBucketPool for a pool one thread uses alone
MaxSeqNum == 2
\* largest number of trees handed to ForestToTree
MaxForest == 3
\* largest size handed to NewBucket for a bucket that is written and read back
MaxWidth == 27

-----------------------------------------------------------------------------
(* Byte strings and hashing.                                               *)
(* A byte string is a sequence of blocks.  A digest is one block that      *)
(* holds its preimage, so sha256 is collision-free by construction and     *)
(* concatenation of byte strings is sequence concatenation.  Payload       *)
(* blocks are tuples no digest of the model equals.                        *)

Byte(k) == [i \in 1..k |-> << <<>>, <<>>, <<>> >>]

\* h.Write(s); h.Sum(nil) on a fresh sha256
H(s) == << s >>

\* a digest no computation of the model produces
BadHash == << Byte(0) , Byte(0) >>

\* the content whose CalculateHash returns an error
ErrContent == 0
\* Node.C of an internal node
NoContent == -1

\* the well-behaved contents
Contents == {1, 2}
AnyContent == Contents \cup {ErrContent}

\* a StorageBucket with the Content bytes of content 1 and another ID:
\* Equals tells it from content 1, CalculateHash does not
TwinContent == 3

\* the bytes of a content that CalculateHash hashes
Payload(c) == IF c = TwinContent THEN 1 ELSE c

\* the contents above StoreBase are the StorageBuckets MakeTree makes of the
\* pool's buckets, all of the pool's topic and size: StoreBase + k holds
\* the k-th byte string of StoredContents
StoreBase == 20
IsStorageBucket(c) == c > StoreBase

\* byte i of n, least significant first
RECURSIVE LEByte(_, _)
LEByte(n, i) == IF i = 1 THEN n % 256 ELSE LEByte(n \div 256, i - 1)

\* binary.LittleEndian.PutUint64 into an 8-byte array
PutUint64(n) == [i \in 1..8 |-> LEByte(n, i)]

\* the records the threads write
Records == {<< 7 >>}

\* the bytes k records written by WriteContent leave in a buffer
RECURSIVE Framed(_)
Framed(k) ==
    IF k = 0 THEN <<>>
    ELSE LET r == CHOOSE x \in Records : TRUE
         IN  Framed(k - 1) \o PutUint64(Len(r)) \o r

\* the byte strings a bucket of the pool can hold
StoredContents ==
    [k \in 1..(PoolWidth \div Len(Framed(1)) + 1) |-> Framed(k - 1)]

\* the StorageBucket with the pool's topic and size and the Content of sb
StorageContent(sb) ==
    StoreBase + (CHOOSE k \in 1..Len(StoredContents) : StoredContents[k] = sb.Content)

\* the Content field of a StorageBucket
StorageBytes(c) == StoredContents[c - StoreBase]

\* the MerkleRoot fields of the trees handed to ForestToTree: of the zero
\* MerkleTree (nil) and of the trees over [1], [2] and [1, 2]
ChildRoots ==
    << <<>>,
       H(H(<< Byte(1) >>) \o H(<< Byte(1) >>)),
       H(H(<< Byte(2) >>) \o H(<< Byte(2) >>)),
       H(H(<< Byte(1) >>) \o H(<< Byte(2) >>)) >>

\* the contents above ByteBase are ByteContent values: ByteBase + k holds
\* the k-th byte string of ChildRoots
ByteBase == 10
IsByteContent(c) == c > ByteBase /\ c <= StoreBase

\* ByteContent{Content: bytes}
ByteContent(bytes) ==
    ByteBase + (CHOOSE k \in 1..Len(ChildRoots) : ChildRoots[k] = bytes)

\* the Content field of a ByteContent
ByteContentBytes(c) == ChildRoots[c - ByteBase]

\* Content.CalculateHash: a ByteContent is its own hash, a StorageBucket
\* hashes its Content bytes ...
CalculateHash(c) ==
    IF IsStorageBucket(c) THEN H([i \in 1..Len(StorageBytes(c)) |-> Byte(StorageBytes(c)[i])])
    ELSE IF IsByteContent(c) THEN ByteContentBytes(c)
    ELSE H(<< Byte(Payload(c)) >>)
\* ... or an error
HashFails(c) == c = ErrContent

\* Content.Equals
Equals(a, b) == a = b

SeqsUpTo(S, n) == UNION { [1..k -> S] : k \in 0..n }

\* the content lists handed to NewTree
InputSeqs ==
    SeqsUpTo(Contents, MaxLeaves) \cup
    {s \in SeqsUpTo(AnyContent, MaxErrLen) : \E i \in 1..Len(s) : s[i] = ErrContent} \cup
    {s \in SeqsUpTo({1, TwinContent}, MaxErrLen) : \E i \in 1..Len(s) : s[i] = TwinContent}

-----------------------------------------------------------------------------
(* Construction.                                                           *)

\* a leaf whose Hash is never set
NewLeafNoHash(c, dup) ==
    [Left |-> 0, Right |-> 0, Hash |-> <<>>, C |-> c,
     parent |-> 0, leaf |-> TRUE, Dup |-> dup]

NewLeaf(c, dup) ==
    [Left |-> 0, Right |-> 0, Hash |-> CalculateHash(c), C |-> c,
     parent |-> 0, leaf |-> TRUE, Dup |-> dup]

\* a build that concatenates the children's hashes in the wrong order
ParentHashSwapped(l, r) == H(r \o l)

\* the hash buildIntermediate gives the parent of left and right
ParentHash(l, r) == H(l \o r)

\* one pass of the loop of buildIntermediate over the level nl, from index i:
\* ns is the node store so far, level the parents made so far
RECURSIVE buildPairs(_, _, _, _)
buildPairs(nl, i, ns, level) ==
    IF i > Len(nl) THEN [ns |-> ns, level |-> level]
    ELSE LET left  == nl[i]
             right == IF i = Len(nl) THEN nl[i] ELSE nl[i + 1]
             id    == Len(ns) + 1
             n     == [Left |-> left, Right |-> right,
                       Hash |-> ParentHash(ns[left].Hash, ns[right].Hash),
                       C |-> NoContent, parent |-> 0, leaf |-> FALSE, Dup |-> FALSE]
             ns1   == [Append(ns, n) EXCEPT ![left].parent = id, ![right].parent = id]
         IN  IF Len(nl) = 2 THEN [ns |-> ns1, level |-> <<id>>]
             ELSE buildPairs(nl, i + 2, ns1, Append(level, id))

RECURSIVE buildIntermediate(_, _)
buildIntermediate(nl, ns) ==
    LET r == buildPairs(nl, 1, ns, <<>>)
    IN  IF Len(nl) = 2 THEN [root |-> r.level[1], ns |-> r.ns]
        ELSE buildIntermediate(r.level, r.ns)

\* does the last leaf get a duplicate
NeedsDup(n) == n % 2 = 1

\* a build that forgets to flag the copy of the last leaf
buildWithContentUnflagged(cs) ==
    IF Len(cs) = 0 THEN [err |-> "empty"]
    ELSE IF \E i \in 1..Len(cs) : HashFails(cs[i]) THEN [err |-> "hash"]
    ELSE LET real  == [i \in 1..Len(cs) |-> NewLeaf(cs[i], FALSE)]
             leafs == IF NeedsDup(Len(real))
                      THEN Append(real, NewLeaf(cs[Len(cs)], FALSE))
                      ELSE real
             t     == buildIntermediate([i \in 1..Len(leafs) |-> i], leafs)
         IN  [err |-> "", root |-> t.root,
              leafs |-> [i \in 1..Len(leafs) |-> i], ns |-> t.ns]

buildWithContent(cs) ==
    IF Len(cs) = 0 THEN [err |-> "empty"]
    ELSE IF \E i \in 1..Len(cs) : HashFails(cs[i]) THEN [err |-> "hash"]
    ELSE LET real  == [i \in 1..Len(cs) |-> NewLeaf(cs[i], FALSE)]
             leafs == IF NeedsDup(Len(real))
                      THEN Append(real, NewLeaf(cs[Len(cs)], TRUE))
                      ELSE real
             t     == buildIntermediate([i \in 1..Len(leafs) |-> i], leafs)
         IN  [err |-> "", root |-> t.root,
              leafs |-> [i \in 1..Len(leafs) |-> i], ns |-> t.ns]

\* the names GetHashStrategies maps to a hash function
GetHashStrategies == {"sha256"}

\* the names callers hand to NewTreeWithHashStrategy
StrategyNames == {"sha256", "md5"}

\* buildWithContent for a tree whose HashStrategy is hs: the lookup of a
\* name that is not in the map gives a nil hash.Hash, and the first
\* h.Write in buildIntermediate panics
buildWithStrategy(cs, hs) ==
    IF Len(cs) = 0 THEN [err |-> "empty"]
    ELSE IF \E i \in 1..Len(cs) : HashFails(cs[i]) THEN [err |-> "hash"]
    ELSE IF hs \notin GetHashStrategies THEN [err |-> "panic"]
    ELSE buildWithContent(cs)

-----------------------------------------------------------------------------
(* Verification and proof extraction.                                      *)

\* a verifyNode that trusts the cached hash of a leaf
RECURSIVE verifyNodeCached(_, _)
verifyNodeCached(ns, n) ==
    IF ns[n].leaf THEN [err |-> "", hash |-> ns[n].Hash]
    ELSE LET r == verifyNodeCached(ns, ns[n].Right)
             l == verifyNodeCached(ns, ns[n].Left)
         IN  [err |-> "", hash |-> H(l.hash \o r.hash)]

RECURSIVE verifyNode(_, _)
verifyNode(ns, n) ==
    IF ns[n].leaf
    THEN IF HashFails(ns[n].C) THEN [err |-> "hash", hash |-> <<>>]
         ELSE [err |-> "", hash |-> CalculateHash(ns[n].C)]
    ELSE LET r == verifyNode(ns, ns[n].Right)
         IN  IF r.err # "" THEN r
             ELSE LET l == verifyNode(ns, ns[n].Left)
                  IN  IF l.err # "" THEN l
                      ELSE [err |-> "", hash |-> H(l.hash \o r.hash)]

VerifyTree ==
    LET c == verifyNode(nodes, Root)
    IN  IF c.err # "" THEN [ok |-> FALSE, err |-> c.err]
        ELSE [ok |-> MerkleRoot = c.hash, err |-> ""]

calculateNodeHash(ns, n) ==
    IF ns[n].leaf
    THEN IF HashFails(ns[n].C) THEN [err |-> "hash", hash |-> <<>>]
         ELSE [err |-> "", hash |-> CalculateHash(ns[n].C)]
    ELSE [err |-> "", hash |-> H(ns[ns[n].Left].Hash \o ns[ns[n].Right].Hash)]

\* index in Leafs of the first leaf whose content Equals content, 0 if none
FirstMatch(content) ==
    LET hits == {i \in 1..Len(Leafs) : Equals(nodes[Leafs[i]].C, content)}
    IN  IF hits = {} THEN 0 ELSE CHOOSE i \in hits : \A j \in hits : i <= j

\* a VerifyContent that does not compare at all
LevelOkAlways(given, stored) == TRUE

\* the check VerifyContent makes at one ancestor
LevelOk(given, stored) == given = stored

\* the loop of VerifyContent from currentParent up
RECURSIVE verifyUp(_)
verifyUp(p) ==
    IF p = 0 THEN [ok |-> TRUE, err |-> ""]
    ELSE LET r == calculateNodeHash(nodes, nodes[p].Right)
         IN  IF r.err # "" THEN [ok |-> FALSE, err |-> r.err]
             ELSE LET l == calculateNodeHash(nodes, nodes[p].Left)
                  IN  IF l.err # "" THEN [ok |-> FALSE, err |-> l.err]
                      ELSE IF ~LevelOk(H(l.hash \o r.hash), nodes[p].Hash)
                           THEN [ok |-> FALSE, err |-> ""]
                           ELSE verifyUp(nodes[p].parent)

VerifyContent(content) ==
    LET i == FirstMatch(content)
    IN  IF i = 0 THEN [ok |-> FALSE, err |-> ""]
        ELSE verifyUp(nodes[Leafs[i]].parent)

\* a GetMerklePath that records the sides the other way round
PathStepSwapped(left, right, current) ==
    IF left = current THEN [hash |-> right, side |-> 0]
    ELSE [hash |-> left, side |-> 1]

\* one round of the loop of GetMerklePath at parent p of current: the hash
\* recorded and the side indicator recorded with it
PathStep(left, right, current) ==
    IF left = current THEN [hash |-> right, side |-> 1]   \* right leaf
    ELSE [hash |-> left, side |-> 0]                      \* left leaf

\* the loop of GetMerklePath: current is the node on the path, p its parent
RECURSIVE pathUp(_, _, _, _)
pathUp(current, p, path, index) ==
    IF p = 0 THEN [path |-> path, index |-> index]
    ELSE LET st == PathStep(nodes[nodes[p].Left].Hash, nodes[nodes[p].Right].Hash,
                            nodes[current].Hash)
         IN  pathUp(p, nodes[p].parent, Append(path, st.hash), Append(index, st.side))

GetMerklePath(content) ==
    LET i == FirstMatch(content)
    IN  IF i = 0 THEN [path |-> <<>>, index |-> <<>>]
        ELSE pathUp(Leafs[i], nodes[Leafs[i]].parent, <<>>, <<>>)

-----------------------------------------------------------------------------
(* Buckets and the bucket pool.                                            *)

Procs == {1, 2}
Topics == {"a", "b"}
\* the topic of the pool
PoolTopic == "a"
BufIds == 1..(MaxNum + 2 * Cardinality(Procs) + 1)

\* a thread variable that holds no bucket yet
NoBucket == [Topic |-> "", size |-> 0, used |-> FALSE, buf |-> 0]

\* NewBucket: an empty buffer (id) of capacity size
NewBucket(size, topic, id) == [Topic |-> topic, size |-> size, used |-> FALSE, buf |-> id]

\* the buffers some bucket of q, h or l points to
Refs(q, h, l) ==
    ({q[i].buf : i \in 1..Len(q)} \cup {h[p].buf : p \in Procs}
        \cup {l[p].buf : p \in Procs}) \ {0}

\* the first buffer id no bucket of q, h or l points to
FreshBuf(q, h, l) ==
    CHOOSE id \in BufIds \ Refs(q, h, l) : \A j \in BufIds \ Refs(q, h, l) : id <= j

\* buffers nothing points to any more are collected
Collect(bs, q, h, l) == [id \in BufIds |-> IF id \in Refs(q, h, l) THEN bs[id] ELSE <<>>]

\* a WriteContent that forgets the length prefix when it tests for room
WriteContentNoPrefix(b, content, bs) ==
    IF Len(content) + Len(bs) > b.size
    THEN [ok |-> FALSE, content |-> content, used |-> b.used]
    ELSE [ok |-> TRUE, content |-> content \o PutUint64(Len(bs)) \o bs, used |-> TRUE]

\* Bucket.WriteContent on bucket b whose buffer holds content: the value
\* returned, the buffer and the used flag afterwards
WriteContent(b, content, bs) ==
    IF Len(content) + Len(bs) + 8 > b.size
    THEN [ok |-> FALSE, content |-> content, used |-> b.used]
    ELSE [ok |-> TRUE, content |-> content \o PutUint64(Len(bs)) \o bs, used |-> TRUE]

\* bucketToStorage: the StorageBucket of bucket b, bs the buffers
bucketToStorage(b, bs) == [Content |-> bs[b.buf], Topic |-> b.Topic, Size |-> b.size]

\* buf.Read(p) with len(p) = n: the n bytes of p afterwards (bytes the
\* buffer does not have stay zero) and what is left of the buffer
ReadBytes(buf, n) == [i \in 1..n |-> IF i <= Len(buf) THEN buf[i] ELSE 0]
ReadRest(buf, n) == IF n >= Len(buf) THEN <<>> ELSE SubSeq(buf, n + 1, Len(buf))

\* binary.LittleEndian.Uint64 of the bytes of b from index i on
RECURSIVE Uint64(_, _)
Uint64(b, i) == IF i > Len(b) THEN 0 ELSE b[i] + 256 * Uint64(b, i + 1)

\* the loop of ReadContent over what is left of the buffer
RECURSIVE readLoop(_, _, _)
readLoop(buf, data, err) ==
    LET lenContent == Uint64(ReadBytes(buf, 8), 1)
        rest       == ReadRest(buf, 8)
    IN  IF lenContent > 0
        THEN readLoop(ReadRest(rest, lenContent),
                      Append(data, ReadBytes(rest, lenContent)),
                      IF rest = <<>> THEN "EOF" ELSE "")
        ELSE [data |-> data, err |-> err]

\* StorageBucket.ReadContent
ReadContent(sb) == readLoop(sb.Content, <<>>, "")

\* a thread that is not in MakeTree
NoMakeTree == [n |-> 0, leafs |-> <<>>, from |-> <<>>]

\* no ReadContent was called yet
NoRead == [data |-> <<>>, err |-> "none"]

\* NewBucketPool(maxNum, size, topic)
PoolInit(maxNum) ==
    /\ bp = [c |-> [i \in 1..maxNum |-> NewBucket(PoolWidth, PoolTopic, i)],
             cap |-> maxNum, width |-> PoolWidth, Topic |-> PoolTopic]
    /\ bufs = [id \in BufIds |-> <<>>]
    /\ held = [p \in Procs |-> NoBucket]
    /\ pc = [p \in Procs |-> "idle"]
    /\ lb = [p \in Procs |-> NoBucket]
    /\ sendq = <<>>
    /\ res = [p |-> 0, op |-> "none", kind |-> "", ok |-> TRUE, err |-> ""]
    /\ wrote = <<>>
    /\ rd = NoRead
    /\ mt = [p \in Procs |-> NoMakeTree]

\* BucketPool.Len
PoolLen == Len(bp.c)

\* thread p returned from op: kind says which branch of Get it took
Result(p, op, kind, ok, err) ==
    [p |-> p, op |-> op, kind |-> kind, ok |-> ok, err |-> err]

\* what Get does with the bucket it received: "back" when it sends it back
\* into the channel and reports exhaustion, "keep" when it returns it
AfterRecv(b) == IF b.used THEN "back" ELSE "keep"

\* a receive from the channel whose buffer is not empty: the head leaves
\* the buffer, and the oldest parked sender, if any, puts its bucket into
\* the slot and is made runnable
RecvQueue == IF sendq = <<>> THEN Tail(bp.c) ELSE Append(Tail(bp.c), lb[Head(sendq)])
RecvWoken == IF sendq = <<>> THEN 0 ELSE Head(sendq)
Wake(f, w, v) == IF w = 0 THEN f ELSE [f EXCEPT ![w] = v]

\* Get, the select: receive the head bucket, or take the default branch
GetSelect(p) ==
    /\ pc[p] = "idle"
    /\ IF Len(bp.c) > 0
       THEN LET b == Head(bp.c)
                q == RecvQueue
                w == RecvWoken
            IN  /\ bp' = [bp EXCEPT !.c = q]
                /\ sendq' = IF w = 0 THEN sendq ELSE Tail(sendq)
                /\ IF AfterRecv(b) = "back"
                   THEN /\ lb' = [Wake(lb, w, NoBucket) EXCEPT ![p] = b]
                        /\ pc' = [Wake(pc, w, "woken") EXCEPT ![p] = "send"]
                        /\ UNCHANGED <<bufs, held, res>>
                   ELSE /\ lb' = Wake(lb, w, NoBucket)
                        /\ pc' = Wake(pc, w, "woken")
                        /\ held' = [held EXCEPT ![p] = b]
                        /\ bufs' = Collect(bufs, q, held', lb')
                        /\ res' = Result(p, "Get", "taken", TRUE, "")
       ELSE LET h  == [held EXCEPT ![p] = NoBucket]
                nb == NewBucket(bp.width, bp.Topic, FreshBuf(bp.c, h, lb))
            IN  /\ held' = [held EXCEPT ![p] = nb]
                /\ bufs' = Collect([bufs EXCEPT ![nb.buf] = <<>>], bp.c, held', lb)
                /\ res' = Result(p, "Get", "empty", FALSE, "exhausted")
                /\ UNCHANGED <<bp, pc, lb, sendq>>
    /\ UNCHANGED <<treeAll, wrote, rd, mt>>

\* Get returns the fresh bucket and the exhaustion error
GetReturnFresh(p, q, l) ==
    LET h  == [held EXCEPT ![p] = NoBucket]
        nb == NewBucket(bp.width, bp.Topic, FreshBuf(q, h, l))
    IN  /\ held' = [held EXCEPT ![p] = nb]
        /\ bufs' = Collect([bufs EXCEPT ![nb.buf] = <<>>], q, held', l)
        /\ res' = Result(p, "Get", "used", FALSE, "exhausted")
        /\ pc' = [pc EXCEPT ![p] = "idle"]

\* Get, bp.c <- b of a used bucket: the send goes through when the buffer
\* has room, and parks the thread when it is full
GetSendBack(p) ==
    /\ pc[p] = "send"
    /\ IF Len(bp.c) < bp.cap
       THEN /\ bp' = [bp EXCEPT !.c = Append(bp.c, lb[p])]
            /\ lb' = [lb EXCEPT ![p] = NoBucket]
            /\ GetReturnFresh(p, bp'.c, lb')
            /\ UNCHANGED sendq
       ELSE /\ pc' = [pc EXCEPT ![p] = "parked"]
            /\ sendq' = Append(sendq, p)
            /\ UNCHANGED <<bp, bufs, held, lb, res>>
    /\ UNCHANGED <<treeAll, wrote, rd, mt>>

\* Get, after a receiver took the parked sender's bucket into the buffer
GetWoken(p) ==
    /\ pc[p] = "woken"
    /\ GetReturnFresh(p, bp.c, lb)
    /\ UNCHANGED <<bp, lb, sendq>>
    /\ UNCHANGED <<treeAll, wrote, rd, mt>>

\* a Put that forgets the topic check
PutAcceptsAnyTopic(b, t, n, cap) == n < cap

\* does Put let bucket b into a pool of topic t whose channel holds n of cap
PutAccepts(b, t, n, cap) == t = b.Topic /\ n < cap

\* Put of the bucket the thread holds; the thread keeps its copy
Put(p) ==
    /\ pc[p] = "idle"
    /\ held[p] # NoBucket
    /\ LET ok == PutAccepts(held[p], bp.Topic, Len(bp.c), bp.cap)
           q  == IF ok THEN Append(bp.c, held[p]) ELSE bp.c
       IN  /\ bp' = [bp EXCEPT !.c = q]
           /\ res' = Result(p, "Put", "", ok, "")
    /\ UNCHANGED <<bufs, held, pc, lb, sendq>>
    /\ UNCHANGED <<treeAll, wrote, rd, mt>>

\* WriteContent on the bucket the thread holds
Write(p) ==
    /\ pc[p] = "idle"
    /\ held[p] # NoBucket
    /\ \E bs \in Records :
          LET w == WriteContent(held[p], bufs[held[p].buf], bs)
          IN  /\ bufs' = [bufs EXCEPT ![held[p].buf] = w.content]
              /\ held' = [held EXCEPT ![p].used = w.used]
              /\ res' = Result(p, "WriteContent", "", w.ok, "")
    /\ UNCHANGED <<bp, pc, lb, sendq>>
    /\ UNCHANGED <<treeAll, wrote, rd, mt>>

\* NewBucket called by a thread, for any topic
MakeBucket(p) ==
    /\ pc[p] = "idle"
    /\ \E t \in Topics :
          LET h  == [held EXCEPT ![p] = NoBucket]
              nb == NewBucket(bp.width, t, FreshBuf(bp.c, h, lb))
          IN  /\ held' = [held EXCEPT ![p] = nb]
              /\ bufs' = Collect([bufs EXCEPT ![nb.buf] = <<>>], bp.c, held', lb)
              /\ res' = Result(p, "NewBucket", "", TRUE, "")
    /\ UNCHANGED <<bp, pc, lb, sendq>>
    /\ UNCHANGED <<treeAll, wrote, rd, mt>>

\* the records written into the bucket that is read back
BucketRecords == {<<>>, << 7 >>, << 8, 9 >>}

\* thread 1 makes a bucket of some size
BucketMake ==
    /\ \E size \in 0..MaxWidth :
          LET h  == [held EXCEPT ![1] = NoBucket]
              nb == NewBucket(size, PoolTopic, FreshBuf(bp.c, h, lb))
          IN  /\ held' = [held EXCEPT ![1] = nb]
              /\ bufs' = Collect([bufs EXCEPT ![nb.buf] = <<>>], bp.c, held', lb)
    /\ res' = Result(1, "NewBucket", "", TRUE, "")
    /\ wrote' = <<>>
    /\ rd' = NoRead
    /\ UNCHANGED <<bp, pc, lb, sendq>>
    /\ UNCHANGED <<treeAll, mt>>

\* thread 1 calls WriteContent(bs) on its bucket
BucketWriteOf(bs) ==
    /\ held[1] # NoBucket
    /\ LET w == WriteContent(held[1], bufs[held[1].buf], bs)
       IN  /\ bufs' = [bufs EXCEPT ![held[1].buf] = w.content]
           /\ held' = [held EXCEPT ![1].used = w.used]
           /\ res' = Result(1, "WriteContent", "", w.ok, "")
           /\ wrote' = IF w.ok THEN Append(wrote, bs) ELSE wrote
    /\ UNCHANGED <<bp, pc, lb, sendq, rd>>
    /\ UNCHANGED <<treeAll, mt>>

BucketWrite == \E bs \in BucketRecords : BucketWriteOf(bs)

\* thread 1 converts its bucket and reads it back
BucketRead ==
    /\ held[1] # NoBucket
    /\ rd' = ReadContent(bucketToStorage(held[1], bufs))
    /\ res' = Result(1, "ReadContent", "", TRUE, rd'.err)
    /\ UNCHANGED <<bp, bufs, held, pc, lb, sendq, wrote>>
    /\ UNCHANGED <<treeAll, mt>>

\* one bucket that is written and read back
NextBucket == BucketMake \/ BucketWrite \/ BucketRead

\* the pool used by concurrent threads
NextPool ==
    \E p \in Procs :
        \/ GetSelect(p)
        \/ GetSendBack(p)
        \/ GetWoken(p)
        \/ Put(p)
        \/ Write(p)
        \/ MakeBucket(p)

-----------------------------------------------------------------------------
(* The calls, as actions.                                                  *)

NoTree == Root = 0

\* the record of a call: hs is the hash strategy name handed to it, if any,
\* and err is "panic" when the call did not return
Ret(op, arg, ok, err) ==
    [op |-> op, arg |-> arg, ok |-> ok, err |-> err, path |-> <<>>, index |-> <<>>,
     hs |-> ""]

\* an assignment that forgets the cached root hash
InstallNoMerkleRoot(b) ==
    /\ nodes' = b.ns
    /\ Root' = b.root
    /\ Leafs' = b.leafs
    /\ UNCHANGED MerkleRoot
    /\ built' = [nodes |-> b.ns, MerkleRoot |-> b.ns[b.root].Hash]

\* t.Root = root; t.Leafs = leafs; t.MerkleRoot = root.Hash
Install(b) ==
    /\ nodes' = b.ns
    /\ Root' = b.root
    /\ Leafs' = b.leafs
    /\ MerkleRoot' = b.ns[b.root].Hash
    /\ built' = [nodes |-> b.ns, MerkleRoot |-> b.ns[b.root].Hash]

\* a RebuildTree that misses the last leaf
LeafContentsShort == [i \in 1..(Len(Leafs) - 1) |-> nodes[Leafs[i]].C]

\* the content list RebuildTree collects from the leaves
LeafContents == [i \in 1..Len(Leafs) |-> nodes[Leafs[i]].C]

\* an ExtendTree that keeps the duplicate leaf
RECURSIVE collectAll(_, _)
collectAll(ns, ls) ==
    IF ls = <<>> THEN <<>>
    ELSE <<ns[Head(ls)].C>> \o collectAll(ns, Tail(ls))

\* the loop of ExtendTree over the leaves: the content of every leaf not
\* flagged Dup
RECURSIVE collectNonDup(_, _)
collectNonDup(ns, ls) ==
    IF ls = <<>> THEN <<>>
    ELSE IF ns[Head(ls)].Dup THEN collectNonDup(ns, Tail(ls))
         ELSE <<ns[Head(ls)].C>> \o collectNonDup(ns, Tail(ls))

\* a rebuild that clears the leaf list before it knows the build succeeded
BuildIntoEager(op, cs, arg, log) ==
    LET b == buildWithContent(cs)
    IN  IF b.err # ""
        THEN /\ Leafs' = <<>>
             /\ UNCHANGED <<nodes, Root, MerkleRoot, built, logical>>
             /\ ret' = Ret(op, arg, FALSE, b.err)
        ELSE /\ Install(b)
             /\ logical' = log
             /\ ret' = Ret(op, arg, TRUE, "")

\* a build and the assignments that follow it: nothing is assigned on error
BuildInto(op, cs, arg, log) ==
    LET b == buildWithContent(cs)
    IN  IF b.err # ""
        THEN /\ UNCHANGED <<nodes, Root, Leafs, MerkleRoot, built, logical>>
             /\ ret' = Ret(op, arg, FALSE, b.err)
        ELSE /\ Install(b)
             /\ logical' = log
             /\ ret' = Ret(op, arg, TRUE, "")

NewTree ==
    /\ UNCHANGED poolVars
    /\ NoTree
    /\ \E cs \in InputSeqs : BuildInto("NewTree", cs, cs, cs)
    /\ UNCHANGED tampers

NewTreeWithHashStrategy ==
    /\ UNCHANGED poolVars
    /\ NoTree
    /\ \E cs \in SeqsUpTo(AnyContent, MaxExt), hs \in StrategyNames :
          LET b == buildWithStrategy(cs, hs)
          IN  IF b.err # ""
              THEN /\ UNCHANGED <<nodes, Root, Leafs, MerkleRoot, built, logical>>
                   /\ ret' = [Ret("NewTreeWithHashStrategy", cs, FALSE, b.err)
                                EXCEPT !.hs = hs]
              ELSE /\ Install(b)
                   /\ logical' = cs
                   /\ ret' = [Ret("NewTreeWithHashStrategy", cs, TRUE, "")
                                EXCEPT !.hs = hs]
    /\ UNCHANGED tampers

RebuildTree ==
    /\ UNCHANGED poolVars
    /\ ~NoTree
    /\ BuildInto("RebuildTree", LeafContents, <<>>, logical)
    /\ UNCHANGED tampers

RebuildTreeWith ==
    /\ UNCHANGED poolVars
    /\ ~NoTree
    /\ \E cs \in SeqsUpTo(AnyContent, MaxExt) : BuildInto("RebuildTreeWith", cs, cs, cs)
    /\ UNCHANGED tampers

ExtendTree ==
    /\ UNCHANGED poolVars
    /\ ~NoTree
    /\ \E cs \in SeqsUpTo(AnyContent, MaxExt) :
          /\ Len(collectNonDup(nodes, Leafs)) + Len(cs) <= MaxLeaves
          /\ BuildInto("ExtendTree", collectNonDup(nodes, Leafs) \o cs, cs, logical \o cs)
    /\ UNCHANGED tampers

\* the trees handed to ForestToTree, which reads their MerkleRoot only
ChildTrees == {[MerkleRoot |-> ChildRoots[k]] : k \in 1..Len(ChildRoots)}

\* a ForestToTree that collects the roots last tree first
forestContentsReversed(trees) ==
    [i \in 1..Len(trees) |-> ByteContent(trees[Len(trees) + 1 - i].MerkleRoot)]

\* the loop of ForestToTree: the content list merkleRoots
forestContents(trees) ==
    [i \in 1..Len(trees) |-> ByteContent(trees[i].MerkleRoot)]

ForestToTree ==
    /\ UNCHANGED poolVars
    /\ NoTree
    /\ \E trees \in SeqsUpTo(ChildTrees, MaxForest) :
          BuildInto("ForestToTree", forestContents(trees),
                    [i \in 1..Len(trees) |-> trees[i].MerkleRoot], forestContents(trees))
    /\ UNCHANGED tampers

\* a MakeTree that puts each bucket in front of the ones before it
makeTreePrepend(leafs, b, bs) == << StorageContent(bucketToStorage(b, bs)) >> \o leafs

\* leafs = append(leafs, bucketToStorage(b))
makeTreeAppend(leafs, b, bs) == Append(leafs, StorageContent(bucketToStorage(b, bs)))

\* MakeTree, numBuckets := bp.Len()
MakeTreeLen(p) ==
    /\ pc[p] = "idle"
    /\ pc' = [pc EXCEPT ![p] = "mtloop"]
    /\ mt' = [mt EXCEPT ![p] = [n |-> Len(bp.c), leafs |-> <<>>,
                                 from |-> [i \in 1..Len(bp.c) |-> bufs[bp.c[i].buf]]]]
    /\ UNCHANGED <<bp, bufs, held, lb, sendq, res, wrote, rd>>
    /\ UNCHANGED treeAll

\* MakeTree, one round of the loop: <-bp.c waits until the channel holds a
\* bucket
MakeTreeRecv(p) ==
    /\ pc[p] = "mtloop"
    /\ mt[p].n > 0
    /\ bp.c # <<>>
    /\ LET b == Head(bp.c)
           q == RecvQueue
           w == RecvWoken
       IN  /\ bp' = [bp EXCEPT !.c = q]
           /\ sendq' = IF w = 0 THEN sendq ELSE Tail(sendq)
           /\ lb' = Wake(lb, w, NoBucket)
           /\ pc' = Wake(pc, w, "woken")
           /\ mt' = [mt EXCEPT ![p].n = @ - 1,
                                ![p].leafs = makeTreeAppend(@, b, bufs)]
           /\ bufs' = Collect(bufs, q, held, lb')
    /\ UNCHANGED <<held, res, wrote, rd>>
    /\ UNCHANGED treeAll

\* MakeTree, after the loop: NewTree(leafs) and return
MakeTreeBuild(p) ==
    /\ pc[p] = "mtloop"
    /\ mt[p].n = 0
    /\ BuildInto("MakeTree", mt[p].leafs, mt[p].leafs, mt[p].leafs)
    /\ res' = Result(p, "MakeTree", "", ret'.err = "", ret'.err)
    /\ pc' = [pc EXCEPT ![p] = "idle"]
    /\ mt' = [mt EXCEPT ![p].leafs = <<>>]
    /\ UNCHANGED <<bp, bufs, held, lb, sendq, wrote, rd, tampers>>

DoVerifyTree ==
    /\ UNCHANGED poolVars
    /\ ~NoTree
    /\ ret' = Ret("VerifyTree", <<>>, VerifyTree.ok, VerifyTree.err)
    /\ UNCHANGED treeVars

DoVerifyContent ==
    /\ UNCHANGED poolVars
    /\ ~NoTree
    /\ \E c \in Contents :
          ret' = Ret("VerifyContent", <<c>>, VerifyContent(c).ok, VerifyContent(c).err)
    /\ UNCHANGED treeVars

DoGetMerklePath ==
    /\ UNCHANGED poolVars
    /\ ~NoTree
    /\ \E c \in Contents \cup {TwinContent} :
          ret' = [Ret("GetMerklePath", <<c>>, TRUE, "") EXCEPT
                    !.path = GetMerklePath(c).path, !.index = GetMerklePath(c).index]
    /\ UNCHANGED treeVars

\* a caller assigns another content to a leaf node (Node.C is exported)
TamperContent ==
    /\ UNCHANGED poolVars
    /\ ~NoTree
    /\ tampers < MaxTamper
    /\ \E i \in 1..Len(Leafs), c \in AnyContent :
          /\ nodes[Leafs[i]].C # c
          /\ nodes' = [nodes EXCEPT ![Leafs[i]].C = c]
    /\ tampers' = tampers + 1
    /\ ret' = Ret("tamper", <<>>, TRUE, "")
    /\ UNCHANGED <<Root, Leafs, MerkleRoot, built, logical>>

\* a caller overwrites the cached hash of a node (Node.Hash is exported)
CorruptHash ==
    /\ UNCHANGED poolVars
    /\ ~NoTree
    /\ tampers < MaxTamper
    /\ \E n \in 1..Len(nodes) :
          /\ nodes[n].Hash # BadHash
          /\ nodes' = [nodes EXCEPT ![n].Hash = BadHash]
    /\ tampers' = tampers + 1
    /\ ret' = Ret("tamper", <<>>, TRUE, "")
    /\ UNCHANGED <<Root, Leafs, MerkleRoot, built, logical>>

\* a caller overwrites the tree's MerkleRoot (the field is exported)
CorruptMerkleRoot ==
    /\ UNCHANGED poolVars
    /\ ~NoTree
    /\ tampers < MaxTamper
    /\ MerkleRoot # BadHash
    /\ MerkleRoot' = BadHash
    /\ tampers' = tampers + 1
    /\ ret' = Ret("tamper", <<>>, TRUE, "")
    /\ UNCHANGED <<nodes, Root, Leafs, built, logical>>

TreeInit ==
    /\ nodes = <<>>
    /\ Root = 0
    /\ Leafs = <<>>
    /\ MerkleRoot = <<>>
    /\ built = [nodes |-> <<>>, MerkleRoot |-> <<>>]
    /\ logical = <<>>
    /\ tampers = 0
    /\ ret = Ret("none", <<>>, TRUE, "")

Init == TreeInit /\ PoolInit(0)

\* the tree engine used as the package intends
Next ==
    \/ NewTree
    \/ NewTreeWithHashStrategy
    \/ RebuildTree
    \/ RebuildTreeWith
    \/ ExtendTree
    \/ DoVerifyTree
    \/ DoVerifyContent
    \/ DoGetMerklePath

Spec == Init /\ [][Next]_vars

\* a tree that is built once and then overwritten from outside
NextTamper ==
    \/ NewTree
    \/ TamperContent
    \/ CorruptHash
    \/ CorruptMerkleRoot
    \/ DoVerifyTree
    \/ DoVerifyContent

SpecTamper == Init /\ [][NextTamper]_vars

\* a tree built over the roots of other trees
NextForest ==
    \/ ForestToTree
    \/ DoVerifyTree

SpecForest == Init /\ [][NextForest]_vars

\* the pool NewBucketPool(maxNum, PoolWidth, PoolTopic) returned
PoolStart == TreeInit /\ \E n \in 0..MaxNum : PoolInit(n)

SpecPool == PoolStart /\ [][NextPool]_vars

SpecBucket == Init /\ [][NextBucket]_vars

\* the pool used by one thread that also makes buckets of its own, of any
\* size, writes to them and puts them into the pool
NextOwn ==
    \/ GetSelect(1)
    \/ GetSendBack(1)
    \/ Put(1)
    \/ Write(1)
    \/ BucketMake

SpecOwn == PoolStart /\ [][NextOwn]_vars

\* the pool used by one thread, with no concurrent pool activity
SeqStart == TreeInit /\ \E n \in 0..MaxSeqNum : PoolInit(n)

NextSeq ==
    \/ GetSelect(1)
    \/ GetSendBack(1)
    \/ Put(1)
    \/ Write(1)
    \/ MakeTreeLen(1)
    \/ MakeTreeRecv(1)
    \/ MakeTreeBuild(1)

SpecSeq == SeqStart /\ [][NextSeq]_vars

\* MakeTree while other threads call Get or MakeTree on the same pool
NextMake ==
    \E p \in Procs :
        \/ GetSelect(p)
        \/ MakeTreeLen(p)
        \/ MakeTreeRecv(p)
        \/ MakeTreeBuild(p)

SpecMake == SeqStart /\ [][NextMake]_vars

-----------------------------------------------------------------------------
(* Properties of the tree engine.                                          *)

\* the indexes of the leaves that are not flagged Dup, in order
RECURSIVE RealIdx(_)
RealIdx(i) ==
    IF i > Len(Leafs) THEN <<>>
    ELSE IF nodes[Leafs[i]].Dup THEN RealIdx(i + 1) ELSE <<i>> \o RealIdx(i + 1)

\* the contents of the leaves that are not flagged Dup, in order
NonDupContents == [k \in 1..Len(RealIdx(1)) |-> nodes[Leafs[RealIdx(1)[k]]].C]

\* the tree is as the last build left it
Unmodified == nodes = built.nodes /\ MerkleRoot = built.MerkleRoot

\* the nodes on the way from node n (excluded) to the root (included)
RECURSIVE Ancestors(_)
Ancestors(n) ==
    IF nodes[n].parent = 0 THEN {} ELSE {nodes[n].parent} \cup Ancestors(nodes[n].parent)

\* the leaves below node n, left to right, a node paired with itself counted once
RECURSIVE LeavesOf(_)
LeavesOf(n) ==
    IF nodes[n].leaf THEN <<n>>
    ELSE IF nodes[n].Left = nodes[n].Right THEN LeavesOf(nodes[n].Left)
    ELSE LeavesOf(nodes[n].Left) \o LeavesOf(nodes[n].Right)

\* what an external verifier computes from a leaf hash and a Merkle path
RECURSIVE FoldPath(_, _, _)
FoldPath(h, path, index) ==
    IF path = <<>> THEN h
    ELSE FoldPath(IF Head(index) = 0 THEN H(Head(path) \o h) ELSE H(h \o Head(path)),
                  Tail(path), Tail(index))

Range(s) == {s[i] : i \in 1..Len(s)}

BuildOps == {"NewTree", "RebuildTree", "RebuildTreeWith", "ExtendTree"}

\* C1: a tree that was built and not modified since passes VerifyTree: the
\* call returns true and no error.
C1_VerifyAfterBuild ==
    (ret.op = "VerifyTree" /\ Unmodified) => (ret.ok /\ ret.err = "")

C1_Witness ==
    /\ ret.op = "VerifyTree" /\ ret.ok /\ Unmodified
    /\ Len(Leafs) = 6 /\ Range(NonDupContents) = Contents

\* C2: for a content present in a built tree, folding the content's hash
\* with the hashes of GetMerklePath, each on the side its indicator names
\* (0: the recorded hash goes left, 1: right), gives MerkleRoot.
C2_PathFoldsToRoot ==
    (ret.op = "GetMerklePath" /\ Unmodified /\ FirstMatch(ret.arg[1]) # 0) =>
        FoldPath(CalculateHash(ret.arg[1]), ret.path, ret.index) = MerkleRoot

C2_Witness ==
    /\ ret.op = "GetMerklePath" /\ Unmodified
    /\ Len(ret.path) = 3 /\ Range(ret.index) = {0, 1}
    /\ FoldPath(CalculateHash(ret.arg[1]), ret.path, ret.index) = MerkleRoot

\* C3: VerifyContent(c) returns true and no error when c is present and the
\* tree is unmodified; false and no error when no leaf holds c; and false
\* when the tree is as built except for the cached hashes of ancestors of
\* the located leaf, at least one of which was overwritten.
C3_VerifyContent ==
    ret.op = "VerifyContent" =>
        LET i == FirstMatch(ret.arg[1])
            anc == Ancestors(Leafs[i])
        IN  /\ (i # 0 /\ Unmodified) => (ret.ok /\ ret.err = "")
            /\ (i = 0) => (~ret.ok /\ ret.err = "")
            /\ ( /\ i # 0
                 /\ MerkleRoot = built.MerkleRoot
                 /\ \A n \in 1..Len(nodes) : n \notin anc => nodes[n] = built.nodes[n]
                 /\ \E a \in anc : nodes[a].Hash # built.nodes[a].Hash )
               => ~ret.ok

C3_Witness ==
    /\ ret.op = "VerifyContent" /\ ~ret.ok /\ ret.err = ""
    /\ FirstMatch(ret.arg[1]) # 0
    /\ \A n \in 1..Len(nodes) :
          n \notin Ancestors(Leafs[FirstMatch(ret.arg[1])]) => nodes[n] = built.nodes[n]
    /\ \E a \in Ancestors(Leafs[FirstMatch(ret.arg[1])]) :
          a # Root /\ nodes[a].Hash # built.nodes[a].Hash
    /\ nodes[Root].Hash = built.nodes[Root].Hash

\* the leaves whose content is not the content they were built with
ChangedLeaves == {i \in 1..Len(Leafs) : nodes[Leafs[i]].C # built.nodes[Leafs[i]].C}

\* C4: when the content of exactly one leaf (possibly the duplicate leaf) was
\* changed after the build, to a content whose hash is not the hash of the
\* old one, and the tree was not rebuilt, VerifyTree returns false.
C4_TamperDetected ==
    ( /\ ret.op = "VerifyTree" /\ Cardinality(ChangedLeaves) = 1
      /\ \A i \in ChangedLeaves :
            Payload(nodes[Leafs[i]].C) # Payload(built.nodes[Leafs[i]].C)
      /\ MerkleRoot = built.MerkleRoot ) => ~ret.ok

C4_Witness ==
    /\ ret.op = "VerifyTree" /\ ~ret.ok /\ ret.err = ""
    /\ Cardinality(ChangedLeaves) = 1
    /\ \A i \in ChangedLeaves : nodes[Leafs[i]].Dup

\* the leaf list holds n real leaves and one duplicate after them iff n is odd
DupOnlyIfOdd ==
    LET n == Len(NonDupContents)
    IN  /\ Len(Leafs) = n + (n % 2)
        /\ \A i \in 1..Len(Leafs) : nodes[Leafs[i]].Dup <=> i = n + 1

\* C5: a successful ExtendTree(cs) leaves the non-duplicate leaf contents
\* equal to the previous non-duplicate leaf contents followed by cs; the old
\* duplicate is gone and a new one is there only if the new count is odd.
C5_ExtendAppends ==
    [][(ret'.op = "ExtendTree" /\ ret'.err = "") =>
          /\ NonDupContents' = NonDupContents \o ret'.arg
          /\ DupOnlyIfOdd']_vars

C5_Witness ==
    /\ ret.op = "ExtendTree" /\ ret.err = ""
    /\ Len(ret.arg) = 1 /\ Len(NonDupContents) = 4 /\ Len(Leafs) = 4

\* C6: after any sequence of RebuildTree and ExtendTree calls the
\* non-duplicate leaf contents are the contents the tree was built from
\* followed by the contents ExtendTree appended: a duplicate never becomes
\* a real leaf.
C6_DuplicatesStayOut ==
    ~NoTree => NonDupContents = logical

\* C7: once a call has returned, MerkleRoot is the hash of the root node and
\* Leafs is the leaf list of the tree below Root.
C7_TreeConsistent ==
    ~NoTree => (MerkleRoot = nodes[Root].Hash /\ Leafs = LeavesOf(Root))

C7_Witness ==
    /\ ret.op = "ExtendTree" /\ ret.err = "hash"
    /\ MerkleRoot = nodes[Root].Hash /\ Leafs = LeavesOf(Root) /\ Len(Leafs) = 4

\* C8: NewTree and RebuildTreeWith on an empty list, and every build that
\* meets a content whose hash fails, return an error; a call that returns
\* an error leaves nodes, Root, Leafs and MerkleRoot as they were, and a
\* failed NewTree leaves no tree.
C8_FailedBuildNoEffect ==
    [][ret'.op \in BuildOps =>
          /\ (ret'.op # "RebuildTree" /\ ret'.arg = <<>> /\ ret'.op # "ExtendTree")
                => ret'.err # ""
          /\ (ErrContent \in Range(ret'.arg)) => ret'.err # ""
          /\ ret'.err # "" => UNCHANGED <<nodes, Root, Leafs, MerkleRoot>>
          /\ (ret'.op = "NewTree" /\ ret'.err # "") => NoTree']_vars

C8_Witness ==
    /\ ret.op = "RebuildTreeWith" /\ ret.arg = <<>> /\ ret.err = "empty"
    /\ ~NoTree /\ Len(Leafs) = 6

\* C16: VerifyContent returns true only if the root hash computed at the
\* top of the path of the located leaf equals the stored MerkleRoot: when
\* MerkleRoot differs from that hash, VerifyContent returns false.
C16_ComparesWithMerkleRoot ==
    ( /\ ret.op = "VerifyContent"
      /\ FirstMatch(ret.arg[1]) # 0
      /\ MerkleRoot # H(calculateNodeHash(nodes, nodes[Root].Left).hash
                            \o calculateNodeHash(nodes, nodes[Root].Right).hash) )
    => ~ret.ok

\* the side of each node on the way up from node n, by position: 1 when the
\* node is the left child of its parent, 0 when it is the right child only
RECURSIVE SidesByPosition(_)
SidesByPosition(n) ==
    IF nodes[n].parent = 0 THEN <<>>
    ELSE << IF nodes[nodes[n].parent].Left = n THEN 1 ELSE 0 >>
            \o SidesByPosition(nodes[n].parent)

\* the hash of the other child of the parent, on the way up from node n
RECURSIVE SiblingHashes(_)
SiblingHashes(n) ==
    IF nodes[n].parent = 0 THEN <<>>
    ELSE LET p == nodes[n].parent
         IN  << IF nodes[p].Left = n THEN nodes[nodes[p].Right].Hash
                ELSE nodes[nodes[p].Left].Hash >> \o SiblingHashes(p)

\* C17: at every level of the result of GetMerklePath the side indicator is
\* 1 exactly when the node on the path is the left child of its parent and
\* the recorded hash is the right child's, and 0 exactly when the node is
\* the right child and the recorded hash is the left child's, also when
\* both children have the same hash.
C17_SideIsPosition ==
    (ret.op = "GetMerklePath" /\ Unmodified /\ FirstMatch(ret.arg[1]) # 0) =>
        /\ ret.index = SidesByPosition(Leafs[FirstMatch(ret.arg[1])])
        /\ ret.path = SiblingHashes(Leafs[FirstMatch(ret.arg[1])])

\* one level up: the hashes of the parents of the nodes with hashes hs, the
\* last one paired with itself when their number is odd
PairUp(hs) ==
    [k \in 1..((Len(hs) + 1) \div 2) |->
        H(hs[2 * k - 1] \o (IF 2 * k <= Len(hs) THEN hs[2 * k] ELSE hs[2 * k - 1]))]

\* the Merkle root over the leaf hashes hs, two at least
RECURSIVE RootOver(_)
RootOver(hs) == IF Len(hs) = 2 THEN PairUp(hs)[1] ELSE RootOver(PairUp(hs))

\* hs, with its last element repeated when its length is odd
PadEven(hs) == IF Len(hs) % 2 = 1 THEN Append(hs, hs[Len(hs)]) ELSE hs

\* C18: ForestToTree of no tree returns the empty-input error and no tree;
\* ForestToTree of one tree or more returns a tree whose non-duplicate
\* leaves hold, in input order, one ByteContent per child tree with that
\* tree's MerkleRoot as bytes, and whose MerkleRoot is the root over those
\* leaves.
C18_ForestToTree ==
    ret.op = "ForestToTree" =>
        IF ret.arg = <<>> THEN ret.err = "empty" /\ NoTree
        ELSE /\ ret.err = ""
             /\ Len(NonDupContents) = Len(ret.arg)
             /\ \A i \in 1..Len(ret.arg) :
                   /\ IsByteContent(NonDupContents[i])
                   /\ ByteContentBytes(NonDupContents[i]) = ret.arg[i]
             /\ MerkleRoot = RootOver(PadEven(ret.arg))

C18_Witness ==
    /\ ret.op = "ForestToTree" /\ ret.err = ""
    /\ Len(ret.arg) = 3 /\ ret.arg[1] # ret.arg[3] /\ ret.arg[2] = <<>>
    /\ Len(Leafs) = 4 /\ MerkleRoot = nodes[Root].Hash

\* C20: NewTreeWithHashStrategy with a name that is not registered returns
\* an error and no tree: it does not panic and does not return a tree.
C20_UnknownStrategyIsError ==
    (ret.op = "NewTreeWithHashStrategy" /\ ret.hs # "sha256") =>
        (ret.err \notin {"", "panic"} /\ NoTree)

\* index in the leaf list of the first leaf of the tree as built whose
\* content Equals content, 0 if none
FirstMatchBuilt(content) ==
    LET hits == {i \in 1..Len(Leafs) : Equals(built.nodes[Leafs[i]].C, content)}
    IN  IF hits = {} THEN 0 ELSE CHOOSE i \in hits : \A j \in hits : i <= j

\* the other child of the parent of node n
Sibling(n) ==
    LET p == nodes[n].parent
    IN  IF nodes[p].Left = n THEN nodes[p].Right ELSE nodes[p].Left

\* C21: VerifyContent reads cached hashes only: on a tree that differs from
\* the tree as built only in the content of the leaf that is the sibling of
\* the located leaf (every cached hash as built), VerifyContent returns
\* for the located content what it returns on the tree as built, which is
\* true and no error.
C21_SiblingContentNotRead ==
    LET i == FirstMatch(ret.arg[1])
    IN  ( /\ ret.op = "VerifyContent"
          /\ i # 0 /\ FirstMatchBuilt(ret.arg[1]) = i
          /\ MerkleRoot = built.MerkleRoot
          /\ \A n \in 1..Len(nodes) :
                IF n = Sibling(Leafs[i]) /\ n # Leafs[i]
                THEN [nodes[n] EXCEPT !.C = NoContent]
                       = [built.nodes[n] EXCEPT !.C = NoContent]
                ELSE nodes[n] = built.nodes[n] )
        => (ret.ok /\ ret.err = "")

\* the nodes reachable from node n through Left and Right
RECURSIVE Reach(_)
Reach(n) ==
    IF nodes[n].leaf THEN {n}
    ELSE {n} \cup Reach(nodes[n].Left) \cup Reach(nodes[n].Right)

\* C23: after a successful build every node reachable from Root is a leaf
\* with a content and no children, whose Hash is the CalculateHash of the
\* content, or an internal node with two children and no content, whose
\* Hash is H(Left.Hash ++ Right.Hash); the two children are the same node
\* only for the last node of a level of odd length.
C23_NodeShape ==
    ~NoTree =>
        \A n \in Reach(Root) :
            IF nodes[n].leaf
            THEN /\ nodes[n].C # NoContent
                 /\ nodes[n].Left = 0 /\ nodes[n].Right = 0
                 /\ nodes[n].Hash = CalculateHash(nodes[n].C)
            ELSE /\ nodes[n].C = NoContent
                 /\ nodes[n].Left # 0 /\ nodes[n].Right # 0
                 /\ nodes[n].Hash =
                       H(nodes[nodes[n].Left].Hash \o nodes[nodes[n].Right].Hash)
                 /\ nodes[n].Left = nodes[n].Right =>
                       /\ ~nodes[nodes[n].Left].leaf
                       /\ \A m \in Reach(Root) :
                             nodes[m].Left = nodes[n].Left => m = n

C23_Witness ==
    /\ ret.op = "RebuildTree" /\ ret.err = "" /\ Len(Leafs) = 6
    /\ \E n \in Reach(Root) : ~nodes[n].leaf /\ nodes[n].Left = nodes[n].Right
    /\ \A n \in Reach(Root) :
          nodes[n].leaf => nodes[n].Hash = CalculateHash(nodes[n].C)

\* C27: a successful RebuildTree on a tree nobody modified leaves MerkleRoot
\* as it was, and VerifyTree returns true afterwards; so it is after any
\* number of RebuildTree calls in a row.
C27_RebuildKeepsRoot ==
    [][(ret'.op = "RebuildTree" /\ Unmodified) =>
          /\ ret'.err = ""
          /\ MerkleRoot' = MerkleRoot
          /\ VerifyTree'.ok /\ VerifyTree'.err = ""]_vars

C27_Witness ==
    /\ ret.op = "RebuildTree" /\ ret.err = ""
    /\ Len(Leafs) = 4 /\ Len(logical) = 3
    /\ \A i \in 1..Len(Leafs) : ~nodes[Leafs[i]].Dup

\* C14: the leaf list of a tree just built from the content list cs is cs
\* in order, and one more leaf iff Len(cs) is odd: that leaf has the hash
\* and the content of the leaf before it and is the only one flagged Dup.
C14_LeafList ==
    [][(ret'.op \in BuildOps /\ ret'.err = "") =>
          LET cs == CASE ret'.op = "RebuildTree" -> [i \in 1..Len(Leafs) |-> nodes[Leafs[i]].C]
                      [] ret'.op = "ExtendTree" -> NonDupContents \o ret'.arg
                      [] OTHER -> ret'.arg
              n  == Len(cs)
          IN  /\ Len(Leafs') = IF n % 2 = 1 THEN n + 1 ELSE n
              /\ \A i \in 1..n : /\ nodes'[Leafs'[i]].C = cs[i]
                                 /\ nodes'[Leafs'[i]].leaf
                                 /\ ~nodes'[Leafs'[i]].Dup
              /\ n % 2 = 1 => /\ nodes'[Leafs'[n + 1]].Dup
                              /\ nodes'[Leafs'[n + 1]].leaf
                              /\ nodes'[Leafs'[n + 1]].C = nodes'[Leafs'[n]].C
                              /\ nodes'[Leafs'[n + 1]].Hash = nodes'[Leafs'[n]].Hash]_vars

C14_Witness ==
    /\ ret.op = "NewTree" /\ ret.err = "" /\ Len(ret.arg) = 5
    /\ Len(Leafs) = 6 /\ nodes[Leafs[6]].Dup /\ ~nodes[Leafs[5]].Dup
    /\ nodes[Leafs[6]].Hash = nodes[Leafs[5]].Hash

\* C15: a successful ExtendTree(cs) with a non-empty cs, whose contents may
\* equal contents of the tree, changes MerkleRoot.
C15_ExtendChangesRoot ==
    [][(ret'.op = "ExtendTree" /\ ret'.arg # <<>> /\ ret'.err = "") =>
          MerkleRoot' # MerkleRoot]_vars

-----------------------------------------------------------------------------
(* Properties of the bucket pool.                                          *)

\* C9: no Get and no Put ever waits on the pool's channel.
C9_NeverWaits ==
    \A p \in Procs : pc[p] # "parked"

\* bucket b is as NewBucket made it for this pool, and shares its buffer
\* with no other bucket
FreshForPool(p) ==
    /\ held'[p].Topic = bp.Topic /\ held'[p].size = bp.width /\ ~held'[p].used
    /\ bufs'[held'[p].buf] = <<>>
    /\ held'[p].buf \notin Refs(bp'.c, [held' EXCEPT ![p] = NoBucket], lb')

\* C10: a Get that finds the pool empty returns the exhaustion error and a
\* fresh, empty, unused bucket of the pool's topic and capacity, and the
\* pool stays empty; a Get that finds an unused bucket at the head returns
\* that bucket and no error, and Len is one less than before.
C10_GetOutcome ==
    [][\A p \in Procs : GetSelect(p) =>
          /\ bp.c = <<>> =>
                (res'.err = "exhausted" /\ FreshForPool(p) /\ bp'.c = <<>>)
          /\ (bp.c # <<>> /\ ~Head(bp.c).used) =>
                ( /\ res'.op = "Get" /\ res'.err = ""
                  /\ held'[p] = Head(bp.c)
                  /\ Len(bp'.c) = Len(bp.c) - 1 )]_vars

-----------------------------------------------------------------------------
(* Properties of one bucket.                                               *)

\* C12: after any sequence of successful WriteContent calls on a bucket,
\* records of length zero included, ReadContent of the converted bucket
\* returns the written records: as many, in the same order, the same bytes.
C12_RoundTrip ==
    res.op = "ReadContent" => (rd.err = "" /\ rd.data = wrote)

\* the frame of record bs: its length in 8 bytes, least significant byte
\* first, and then the record
Frame(bs) == << Len(bs), 0, 0, 0, 0, 0, 0, 0 >> \o bs

\* C13: WriteContent(bs) returns true exactly when the content length plus
\* len(bs) plus 8 is at most the bucket's size; then the content grows by
\* the frame of bs and the bucket is used; otherwise content and used flag
\* stay as they were.  The content is never longer than the size.
C13_WriteContent ==
    [][\A bs \in BucketRecords : BucketWriteOf(bs) =>
          LET b    == held[1]
              cur  == bufs[b.buf]
              fits == Len(cur) + Len(bs) + 8 <= b.size
          IN  /\ res'.ok = fits
              /\ fits => (bufs'[b.buf] = cur \o Frame(bs) /\ held'[1].used)
              /\ ~fits => (bufs'[b.buf] = cur /\ held'[1].used = b.used)
              /\ Len(bufs'[b.buf]) <= b.size]_vars

C13_Witness ==
    /\ res.op = "WriteContent" /\ ~res.ok
    /\ Len(wrote) = 2 /\ held[1].used
    /\ Len(bufs[held[1].buf]) = held[1].size - 8

\* C19: whatever Get and Put calls were made, the pool holds at most maxNum
\* buckets, and each of them has the pool's topic and the size the pool
\* was made with.
C19_PoolBuckets ==
    /\ Len(bp.c) <= bp.cap
    /\ \A i \in 1..Len(bp.c) : bp.c[i].Topic = bp.Topic /\ bp.c[i].size = bp.width

\* C22: when Get has returned the exhaustion error, the pool has no fresh
\* bucket: it is empty or every bucket in it is used.
C22_ExhaustedMeansNoFresh ==
    (res.op = "Get" /\ res.err = "exhausted") =>
        (bp.c = <<>> \/ \A i \in 1..Len(bp.c) : bp.c[i].used)

\* C26: a bucket is used exactly when its buffer was written to: every
\* bucket in the pool that is not used has an empty buffer, and a bucket
\* that Get has just returned without an error is empty.
C26_UnusedIsEmpty ==
    /\ \A i \in 1..Len(bp.c) : ~bp.c[i].used => bufs[bp.c[i].buf] = <<>>
    /\ (res.op = "Get" /\ res.err = "") => bufs[held[res.p].buf] = <<>>

\* C24: MakeTree always returns: with other threads calling Get or MakeTree
\* on the same pool, no thread is left in MakeTree waiting for a bucket of
\* a pool that is empty (the pool of such threads never gains a bucket, so
\* the wait would not end).
C24_MakeTreeReturns ==
    \A p \in Procs : ~(pc[p] = "mtloop" /\ mt[p].n > 0 /\ bp.c = <<>>)

\* C25: MakeTree called with no other pool activity on a pool of L >= 1
\* buckets returns a tree whose non-duplicate leaves hold, in queue order,
\* the StorageBuckets of those L buckets, and leaves Len = 0; on an empty
\* pool it returns the empty-input error.
C25_MakeTreeSequential ==
    (res.op = "MakeTree" /\ pc[1] = "idle") =>
        LET from == mt[1].from
        IN  IF from = <<>> THEN res.err = "empty"
            ELSE /\ res.err = ""
                 /\ Len(NonDupContents) = Len(from)
                 /\ \A i \in 1..Len(from) :
                       /\ IsStorageBucket(NonDupContents[i])
                       /\ StorageBytes(NonDupContents[i]) = from[i]
                 /\ MerkleRoot = nodes[Root].Hash
                 /\ Len(bp.c) = 0

C25_Witness ==
    /\ res.op = "MakeTree" /\ res.err = "" /\ pc[1] = "idle"
    /\ Len(mt[1].from) = 2 /\ mt[1].from[1] = <<>> /\ mt[1].from[2] # <<>>
    /\ Len(NonDupContents) = 2 /\ Len(bp.c) = 0

====
